---- MODULE Spec2Model ----
(***************************************************************************)
(* Deduplication state store of the Coves aggregators                      *)
(* (aggregators/reddit-highlights/src/state_manager.py) and the            *)
(* orchestration loop that drives it (src/main.py of both aggregators).    *)
(*                                                                         *)
(* Encoding of the data:                                                   *)
(*  - a JSON string holding a timestamp is a non-empty sequence of         *)
(*    integers, JSON null is the empty sequence <<>>;                      *)
(*  - a datetime is an integer number of clock ticks; SubTicks ticks make  *)
(*    one second, DayTicks ticks make one day;                             *)
(*  - datetime.isoformat() prints <<seconds>> when the sub-second part is  *)
(*    zero and <<seconds, fraction>> otherwise, as Python omits the        *)
(*    microseconds when they are zero;                                     *)
(*  - strings are ordered lexicographically, as Python orders str;         *)
(*  - a record of posted_guids written without the key "posted_at" is a    *)
(*    TLA+ record without that field.                                      *)
(***************************************************************************)
EXTENDS Integers, Sequences, FiniteSets, TLC

\* ------------------------------------------------------------------ bounds
Feeds == {"a", "b"}

Guids == {"x", "y", "z"}

PostUris == {"u"}

MaxTime == 3

SubTicks == 2

DayTicks == 2

MaxCalls == 3

MaxRuns == 2

MaxFaults == 1

\* the largest RSSFetcher.max_retries considered (default 3)
MaxRetries == 3

\* config.max_posts_per_run (default 3), scaled down
max_posts_per_run == 2

\* StateManager.__init__ parameters (defaults 100 and 30), scaled down
max_guids_per_feed == 2

max_age_days == 1

\* ------------------------------------------------------- strings and time
None == <<>>

\* the string "not-a-date" of test_handles_malformed_timestamps: it does not
\* parse, and as a str it is greater than every timestamp ("n" > digits)
NotADate == <<110, 111, 116>>

Min(a, b) == IF a < b THEN a ELSE b

\* Python's str "<": the first differing position decides, a proper prefix
\* is smaller.
StrLess(a, b) ==
  \E i \in 1..(Min(Len(a), Len(b)) + 1) :
     /\ \A j \in 1..(i - 1) : a[j] = b[j]
     /\ \/ i > Len(a) /\ i <= Len(b)
        \/ i <= Len(a) /\ i <= Len(b) /\ a[i] < b[i]

\* datetime.isoformat(): the fraction is printed only when it is not zero.
isoformat(t) ==
  IF t % SubTicks = 0 THEN << t \div SubTicks >>
                      ELSE << t \div SubTicks, t % SubTicks >>

\* datetime.fromisoformat() accepts "seconds" and "seconds.fraction";
\* anything else raises ValueError.
IsIsoFormat(s) ==
  /\ Len(s) \in {1, 2}
  /\ s[1] >= 0
  /\ Len(s) = 2 => s[2] \in 0..(SubTicks - 1)

fromisoformat(s) ==
  IF Len(s) = 1 THEN s[1] * SubTicks ELSE s[1] * SubTicks + s[2]

\* timedelta(days = n)
timedelta(n) == n * DayTicks

\* ------------------------------------------------------ the state document
EmptyFeed == [posted_guids |-> <<>>, last_successful_run |-> None]

NoFeeds == [f \in {} |-> EmptyFeed]

EmptyState == [feeds |-> NoFeeds]

\* StateManager._ensure_feed_exists
_ensure_feed_exists(st, feed_url) ==
  IF feed_url \in DOMAIN st.feeds
    THEN st
    ELSE [st EXCEPT !.feeds =
            [f \in (DOMAIN st.feeds) \cup {feed_url} |->
               IF f = feed_url THEN EmptyFeed ELSE st.feeds[f]]]

\* StateManager.is_posted: the value returned
is_posted(st, feed_url, guid) ==
  LET posted_guids == _ensure_feed_exists(st, feed_url).feeds[feed_url].posted_guids
  IN  \E i \in 1..Len(posted_guids) : posted_guids[i].guid = guid

\* StateManager.get_posted_count: the value returned
get_posted_count(st, feed_url) ==
  Len(_ensure_feed_exists(st, feed_url).feeds[feed_url].posted_guids)

\* StateManager.get_last_run: the value returned is None, a datetime, or the
\* ValueError of fromisoformat
get_last_run(st, feed_url) ==
  LET timestamp_str == _ensure_feed_exists(st, feed_url).feeds[feed_url].last_successful_run
  IN  IF timestamp_str = None THEN [kind |-> "none", t |-> 0]
      ELSE IF IsIsoFormat(timestamp_str)
             THEN [kind |-> "datetime", t |-> fromisoformat(timestamp_str)]
             ELSE [kind |-> "ValueError", t |-> 0]

\* datetime.fromisoformat(entry['posted_at']) raises TypeError when the value
\* is not a str (JSON null); the except clause of the loop names KeyError and
\* ValueError only
RaisesTypeError(entry) ==
  /\ "posted_at" \in DOMAIN entry
  /\ entry.posted_at = None

\* the loop of cleanup_old_entries reaches an entry that raises TypeError
cleanup_raises(st, feed_url) ==
  LET posted_guids == _ensure_feed_exists(st, feed_url).feeds[feed_url].posted_guids
  IN  \E i \in 1..Len(posted_guids) : RaisesTypeError(posted_guids[i])

\* the age filter of cleanup_old_entries: entries without posted_at (KeyError)
\* or whose posted_at does not parse (ValueError) are skipped, the others
\* are kept when newer than the cutoff
AgeKeeps(entry, cutoff_date) ==
  /\ "posted_at" \in DOMAIN entry
  /\ IsIsoFormat(entry.posted_at)
  /\ fromisoformat(entry.posted_at) > cutoff_date

AgeFilter(posted_guids, cutoff_date) ==
  SelectSeq(posted_guids, LAMBDA entry : AgeKeeps(entry, cutoff_date))

\* a variant that sorts oldest first
InsertDesc_Asc(sorted, entry) ==
  LET k == Cardinality({i \in 1..Len(sorted) :
                          ~ StrLess(entry.posted_at, sorted[i].posted_at)})
  IN  SubSeq(sorted, 1, k) \o << entry >> \o SubSeq(sorted, k + 1, Len(sorted))

\* list.sort(key = posted_at, reverse = True): descending by the string,
\* stable (entries with equal keys keep their order)
InsertDesc(sorted, entry) ==
  LET k == Cardinality({i \in 1..Len(sorted) :
                          ~ StrLess(sorted[i].posted_at, entry.posted_at)})
  IN  SubSeq(sorted, 1, k) \o << entry >> \o SubSeq(sorted, k + 1, Len(sorted))

RECURSIVE SortDesc(_)
SortDesc(entries) ==
  IF entries = <<>> THEN <<>>
  ELSE InsertDesc(SortDesc(SubSeq(entries, 1, Len(entries) - 1)),
                  entries[Len(entries)])

\* a variant of the slice that keeps one entry too many
Truncate_OffByOne(entries) ==
  SubSeq(entries, 1, Min(Len(entries), max_guids_per_feed + 1))

\* filtered[:max_guids_per_feed]
Truncate(entries) == SubSeq(entries, 1, Min(Len(entries), max_guids_per_feed))

\* a variant of the cleanup that prunes every feed of the document, not only
\* the one it is called for
cleanup_all_feeds(st, feed_url, now_) ==
  LET s1 == _ensure_feed_exists(st, feed_url)
      cutoff_date == now_ - timedelta(max_age_days)
  IN  [s1 EXCEPT !.feeds =
         [f \in DOMAIN s1.feeds |->
            [s1.feeds[f] EXCEPT !.posted_guids =
               Truncate(SortDesc(AgeFilter(@, cutoff_date)))]]]

\* StateManager.cleanup_old_entries, with now the clock reading it takes
cleanup_old_entries(st, feed_url, now_) ==
  LET s1 == _ensure_feed_exists(st, feed_url)
      cutoff_date == now_ - timedelta(max_age_days)
      filtered == Truncate(SortDesc(AgeFilter(s1.feeds[feed_url].posted_guids, cutoff_date)))
  IN  [s1 EXCEPT !.feeds[feed_url].posted_guids = filtered]

\* a variant that rebuilds the feed entry from the two fields it knows
append_entry_Rebuild(st, feed_url, guid, post_uri, t1) ==
  LET s1 == _ensure_feed_exists(st, feed_url)
      entry == [guid |-> guid, post_uri |-> post_uri, posted_at |-> isoformat(t1)]
  IN  [s1 EXCEPT !.feeds[feed_url] =
         [posted_guids |-> Append(s1.feeds[feed_url].posted_guids, entry),
          last_successful_run |-> s1.feeds[feed_url].last_successful_run]]

\* mark_posted up to the append, before the cleanup
append_entry(st, feed_url, guid, post_uri, t1) ==
  LET s1 == _ensure_feed_exists(st, feed_url)
      entry == [guid |-> guid, post_uri |-> post_uri, posted_at |-> isoformat(t1)]
  IN  [s1 EXCEPT !.feeds[feed_url].posted_guids = Append(@, entry)]

\* the in-memory part of StateManager.mark_posted: t1 is the clock reading
\* stored in posted_at, t2 the later reading taken by the cleanup
mark_posted(st, feed_url, guid, post_uri, t1, t2) ==
  cleanup_old_entries(append_entry(st, feed_url, guid, post_uri, t1), feed_url, t2)

\* a variant that stores the timestamp without its sub-second part
update_last_run_Seconds(st, feed_url, timestamp) ==
  [_ensure_feed_exists(st, feed_url)
     EXCEPT !.feeds[feed_url].last_successful_run =
              isoformat((timestamp \div SubTicks) * SubTicks)]

\* the in-memory part of StateManager.update_last_run
update_last_run(st, feed_url, timestamp) ==
  [_ensure_feed_exists(st, feed_url)
     EXCEPT !.feeds[feed_url].last_successful_run = isoformat(timestamp)]


\* ------------------------------------------------------------- the files
\* A file is absent, holds the JSON text of a document ("json"), holds a
\* proper prefix of that text ("partial"), holds text that is not JSON
\* ("text"), or holds bytes that do not decode as text ("bytes").
Absent == [kind |-> "absent", doc |-> EmptyState]

GarbageText == [kind |-> "text", doc |-> EmptyState]

GarbageBytes == [kind |-> "bytes", doc |-> EmptyState]

\* json.dump(state, f, indent=2), completed and closed
json_dump(st) == [kind |-> "json", doc |-> st]

\* the temp file while json.dump is under way: open(temp_file, 'w') has
\* truncated it and only a proper prefix of the text is written
PartialDump(st) == [kind |-> "partial", doc |-> st]

\* open(state_file, 'r') followed by json.load(f): the document, or the
\* exception raised
json_load(file) ==
  CASE file.kind = "json"    -> [exc |-> "none", doc |-> file.doc]
    [] file.kind = "bytes"   -> [exc |-> "UnicodeDecodeError", doc |-> EmptyState]
    [] file.kind = "absent"  -> [exc |-> "FileNotFoundError", doc |-> EmptyState]
    [] OTHER                 -> [exc |-> "JSONDecodeError", doc |-> EmptyState]

\* documents found on disk at the first start. DocByCode was written by an
\* earlier run (mark_posted leaves the list sorted, most recent first);
\* DocByHand was written by hand or by another version: unsorted, longer
\* than the cap, with a timestamp that does not parse and with fields this
\* version does not know (version, etag, title).
Entry(guid, posted_at) == [guid |-> guid, post_uri |-> "u", posted_at |-> posted_at]

DocByCode ==
  [feeds |-> [f \in {"a"} |->
     [posted_guids |-> << Entry("y", isoformat(1)), Entry("x", isoformat(0)) >>,
      last_successful_run |-> isoformat(1)]]]

\* DocByOther was written by another program: a record without posted_at,
\* a record whose posted_at is null, a last_successful_run that does not parse
DocByOther ==
  [feeds |-> [f \in {"a", "b"} |->
     IF f = "a"
       THEN [posted_guids |-> << [guid |-> "x", post_uri |-> "u"],
                                 Entry("y", isoformat(1)) >>,
             last_successful_run |-> NotADate]
       ELSE [posted_guids |-> << Entry("x", isoformat(1)), Entry("y", None) >>,
             last_successful_run |-> None]]]

DocByHand ==
  [version |-> 2,
   feeds |-> [f \in {"a", "b"} |->
     IF f = "a"
       THEN [posted_guids |-> << Entry("x", NotADate), Entry("y", isoformat(0)),
                                 [guid |-> "z", post_uri |-> "u",
                                  posted_at |-> isoformat(1), title |-> 5] >>,
             last_successful_run |-> None]
       ELSE [posted_guids |-> << Entry("x", isoformat(1)) >>,
             last_successful_run |-> isoformat(0),
             etag |-> 7]]]

InitFiles ==
  {Absent, GarbageText, GarbageBytes, json_dump(DocByCode), json_dump(DocByHand),
   json_dump(DocByOther)}

\* config.feeds / config.subreddits in configuration order: feed "c" is
\* disabled
config_feeds ==
  << [url |-> "a", enabled |-> TRUE],
     [url |-> "c", enabled |-> FALSE],
     [url |-> "b", enabled |-> TRUE] >>

\* enabled_feeds = [f for f in self.config.feeds if f.enabled]
enabled_feeds == SelectSeq(config_feeds, LAMBDA f : f.enabled)

FeedOrder == [ i \in 1..Len(enabled_feeds) |-> enabled_feeds[i].url ]

\* what the upstream feeds present, run after run: the guids of feed.entries
FeedContents ==
  { [f \in Feeds |-> IF f = "a" THEN << "x" >> ELSE << "x", "y", "z" >>],
    [f \in Feeds |-> IF f = "a" THEN << >> ELSE << "y" >>] }

\* -------------------------------------------------------------- the state
VARIABLES
  disk,        \* the file at state_file
  tmp,         \* the file at state_file.with_suffix('.json.tmp')
  bak,         \* the file at state_file.with_suffix('.json.corrupted')
  state,       \* StateManager.state of the live instance
  pc,          \* "closed": no instance; "idle": between calls; "save_open",
               \* "save_dump", "save_rename": position inside _save_state
  last,        \* the call under way or the last one finished, and its outcome
  now,         \* the latest reading of datetime.now()
  diskBefore,  \* the file at state_file when the call in last started
  saveDoc,     \* the document handed to the latest _save_state
  cache,       \* the paths ("tmp", "disk") whose content was written and not
               \* flushed to the device (no flush, no os.fsync)
  calls,       \* number of calls made so far
  faults,      \* number of I/O errors and kills so far
  rpc,         \* position of Aggregator.run ("off": the store is used alone)
  src,         \* index in FeedOrder of the feed being processed
  idx,         \* index in feed.entries of the entry being processed
  entries,     \* the entries each feed presents
  runs,        \* number of aggregator processes started
  published,   \* per feed and guid, the number of successful create_post
  forgotten,   \* pairs <<feed, guid>> published whose record was evicted or
               \* whose mark_posted did not return normally
  failed,      \* pairs <<feed, guid>> whose latest create_post raised
  fetched,     \* feeds whose fetch_feed returned in the current run
  stamps,      \* per feed, the update_last_run calls of the current run
  attempted,   \* the feeds _process_feed was called for in the current run
  url,         \* fetch_feed: the argument
  max_retries, \* RSSFetcher.max_retries
  attempt,     \* fetch_feed: the loop variable
  last_error,  \* fetch_feed: the local last_error
  fpc,         \* fetch_feed: "call", "loop", "sleep" or "done"
  fres,        \* fetch_feed: "feed" when it returned, else the exception raised
  gets,        \* number of requests.get calls made
  slept,       \* the arguments of the time.sleep calls made
  errors,      \* the exceptions requests.get raised
  new_posts,   \* _process_subreddit: the local new_posts
  skipped_posts, \* _process_subreddit: the local skipped_posts
  create_calls \* number of coves_client.create_post calls of the pass

storevars == << disk, tmp, bak, state, pc, last, now, diskBefore, saveDoc, cache >>

logvars == << failed, fetched, stamps, attempted >>

runvars == << rpc, src, idx, entries, runs, published, forgotten, failed, fetched, stamps,
             attempted >>

fetchvars == << url, max_retries, attempt, last_error, fpc, fres, gets, slept, errors >>

subvars == << new_posts, skipped_posts, create_calls >>

vars == << disk, tmp, bak, state, pc, last, now, diskBefore, saveDoc, cache,
           calls, faults,
           rpc, src, idx, entries, runs, published, forgotten,
           failed, fetched, stamps, attempted,
           url, max_retries, attempt, last_error, fpc, fres, gets, slept, errors,
           new_posts, skipped_posts, create_calls >>

NoRet == [kind |-> "none", t |-> 0]

Call(op, feed_url, guid, result, ret) ==
  [op |-> op, feed_url |-> feed_url, guid |-> guid, result |-> result,
   at |-> "", ret |-> ret]

\* readings datetime.now() can give after the reading t: the wall clock
\* may stand still, step back (a clock adjustment, the end of daylight
\* saving time of the naive local time) or advance by any amount
ClockReads(t) == {u \in 0..MaxTime : u >= t - 1}

\* readings inside one aggregator run, where calls follow each other
\* closely: the clock stands still or advances by one tick
RunClockReads(t) == {u \in 0..MaxTime : u >= t /\ u <= t + 1}

InitStore ==
  /\ disk \in InitFiles
  /\ tmp = Absent
  /\ bak = Absent
  /\ state = EmptyState
  /\ pc = "closed"
  /\ last = Call("none", "a", "x", "ok", NoRet)
  /\ now = 1
  /\ diskBefore = disk
  /\ saveDoc = EmptyState
  /\ cache = {}
  /\ calls = 0
  /\ faults = 0
  /\ src = 1
  /\ idx = 1
  /\ runs = 0
  /\ published = [f \in Feeds |-> [g \in Guids |-> 0]]
  /\ forgotten = {}
  /\ failed = {}
  /\ fetched = {}
  /\ stamps = [f \in Feeds |-> 0]
  /\ attempted = << >>

\* no fetch_feed call is under way
FetchOff ==
  /\ url = ""
  /\ max_retries = 0
  /\ attempt = 0
  /\ last_error = "None"
  /\ fpc = "off"
  /\ fres = "none"
  /\ gets = 0
  /\ slept = << >>
  /\ errors = << >>

\* no _process_subreddit call is under way
SubOff ==
  /\ new_posts = 0
  /\ skipped_posts = 0
  /\ create_calls = 0

Init ==
  /\ InitStore
  /\ rpc = "off"
  /\ entries = [f \in Feeds |-> << >>]
  /\ FetchOff
  /\ SubOff

\* ------------------------------------------------------------ _save_state
\* a variant that saves before the change is applied to self.state
BeginSave_Stale(op, feed_url, guid, st) ==
  /\ state' = st
  /\ saveDoc' = state
  /\ pc' = "save_open"
  /\ last' = [op |-> op, feed_url |-> feed_url, guid |-> guid,
              result |-> "running", at |-> "", ret |-> [kind |-> "none", t |-> 0]]

\* the call of _save_state(st) made by the operation op
BeginSave(op, feed_url, guid, st) ==
  /\ state' = st
  /\ saveDoc' = st
  /\ pc' = "save_open"
  /\ last' = Call(op, feed_url, guid, "running", NoRet)

\* the except branch of _save_state: unlink the temp file when it exists
\* (an OSError of unlink is swallowed), then re-raise
ExceptCleanup(file) == IF file = Absent THEN {Absent} ELSE {Absent, file}

\* the OSError leaves _save_state: a constructor that raises leaves no
\* instance, any other operation raises to its caller
RaiseOSError ==
  /\ last' = [last EXCEPT !.result = "OSError", !.at = pc]
  /\ IF last.op = "open"
       THEN pc' = "closed" /\ state' = EmptyState
       ELSE pc' = "idle" /\ state' = state

\* a variant that opens state_file itself for writing, without a temp file
SaveOpen_InPlace ==
  /\ pc = "save_open"
  /\ disk' = PartialDump(saveDoc)
  /\ tmp' = PartialDump(saveDoc)
  /\ pc' = "save_dump"
  /\ UNCHANGED << bak, state, last, now, diskBefore, saveDoc >>
  /\ cache' = cache \cup {"tmp", "disk"}

\* state_file.parent.mkdir(...) and open(temp_file, 'w') succeed
SaveOpen ==
  /\ pc = "save_open"
  /\ tmp' = PartialDump(saveDoc)
  /\ pc' = "save_dump"
  /\ UNCHANGED << disk, bak, state, last, now, diskBefore, saveDoc >>
  /\ cache' = cache \cup {"tmp"}

\* mkdir raises OSError (outside the try: no cleanup), or open raises it
SaveOpenFails ==
  /\ pc = "save_open"
  /\ \/ tmp' = tmp
     \/ tmp' \in ExceptCleanup(tmp)
  /\ RaiseOSError
  /\ UNCHANGED << disk, bak, now, diskBefore, saveDoc >>
  /\ cache' = IF tmp' = Absent THEN cache \ {"tmp"} ELSE cache

\* json.dump writes the whole text and the with block closes the file
SaveDump ==
  /\ pc = "save_dump"
  /\ tmp' = json_dump(saveDoc)
  /\ pc' = "save_rename"
  /\ UNCHANGED << disk, bak, state, last, now, diskBefore, saveDoc >>
  /\ cache' = cache \cup {"tmp"}

\* the write raises OSError (disk full) part of the way
SaveDumpFails ==
  /\ pc = "save_dump"
  /\ tmp' \in ExceptCleanup(tmp)
  /\ RaiseOSError
  /\ UNCHANGED << disk, bak, now, diskBefore, saveDoc >>
  /\ cache' = IF tmp' = Absent THEN cache \ {"tmp"} ELSE cache

\* a variant that copies the temp file onto the file and leaves it there
SaveRename_Copy ==
  /\ pc = "save_rename"
  /\ disk' = tmp
  /\ tmp' = tmp
  /\ pc' = "idle"
  /\ last' = [last EXCEPT !.result = "ok"]
  /\ UNCHANGED << bak, state, now, diskBefore, saveDoc >>
  /\ cache' = cache \cup {"disk"}

\* temp_file.rename(self.state_file): atomic replacement
SaveRename ==
  /\ pc = "save_rename"
  /\ disk' = tmp
  /\ tmp' = Absent
  /\ pc' = "idle"
  /\ last' = [last EXCEPT !.result = "ok"]
  /\ UNCHANGED << bak, state, now, diskBefore, saveDoc >>
  /\ cache' = IF "tmp" \in cache THEN (cache \ {"tmp"}) \cup {"disk"}
                                  ELSE cache \ {"disk"}

\* a variant whose replacement is a copy that fails part of the way
SaveRenameFails_Torn ==
  /\ pc = "save_rename"
  /\ disk' = PartialDump(saveDoc)
  /\ tmp' \in ExceptCleanup(tmp)
  /\ RaiseOSError
  /\ UNCHANGED << bak, now, diskBefore, saveDoc >>
  /\ cache' = cache \cup {"disk"}

\* rename raises OSError
SaveRenameFails ==
  /\ pc = "save_rename"
  /\ tmp' \in ExceptCleanup(tmp)
  /\ RaiseOSError
  /\ UNCHANGED << disk, bak, now, diskBefore, saveDoc >>
  /\ cache' = IF tmp' = Absent THEN cache \ {"tmp"} ELSE cache

SaveStep ==
  \/ SaveOpen
  \/ SaveDump
  \/ SaveRename

SaveStepFails ==
  \/ SaveOpenFails
  \/ SaveDumpFails
  \/ SaveRenameFails

\* ------------------------------------------- StateManager.__init__ / _load_state
\* shutil.copy2(state_file, backup_path): the copy, or an OSError that is
\* logged and ignored
Copy2(file, target) == {file, target}

\* a variant that does not write the file when it is absent
Open_NoSave ==
  /\ pc = "closed"
  /\ diskBefore' = disk
  /\ UNCHANGED << disk, tmp, now >>
  /\ LET loaded == json_load(disk)
     IN  CASE disk = Absent ->
                /\ state' = EmptyState
                /\ pc' = "idle"
                /\ last' = Call("open", "a", "x", "ok", NoRet)
                /\ UNCHANGED << bak, saveDoc >>
           [] loaded.exc = "none" ->
                /\ state' = loaded.doc
                /\ pc' = "idle"
                /\ last' = Call("open", "a", "x", "ok", NoRet)
                /\ UNCHANGED << bak, saveDoc >>
           [] loaded.exc = "JSONDecodeError" ->
                /\ bak' \in Copy2(disk, bak)
                /\ BeginSave("open", "a", "x", EmptyState)
           [] OTHER ->
                /\ pc' = "closed"
                /\ last' = Call("open", "a", "x", loaded.exc, NoRet)
                /\ UNCHANGED << bak, state, saveDoc >>
  /\ UNCHANGED cache

Open ==
  /\ pc = "closed"
  /\ diskBefore' = disk
  /\ UNCHANGED << disk, tmp, now >>
  /\ LET loaded == json_load(disk)
     IN  CASE disk = Absent ->
                /\ BeginSave("open", "a", "x", EmptyState)
                /\ bak' = bak
           [] loaded.exc = "none" ->
                /\ state' = loaded.doc
                /\ pc' = "idle"
                /\ last' = Call("open", "a", "x", "ok", NoRet)
                /\ UNCHANGED << bak, saveDoc >>
           [] loaded.exc = "JSONDecodeError" ->
                /\ bak' \in Copy2(disk, bak)
                /\ BeginSave("open", "a", "x", EmptyState)
           [] OTHER ->
                /\ pc' = "closed"
                /\ last' = Call("open", "a", "x", loaded.exc, NoRet)
                /\ UNCHANGED << bak, state, saveDoc >>
  /\ UNCHANGED cache

\* ------------------------------------------------------ the public methods
\* a variant that saves the list as appended, before the cleanup
MarkPosted_SaveFirst(feed_url, guid, post_uri, t) ==
  /\ pc = "idle"
  /\ diskBefore' = disk
  /\ now' = t
  /\ BeginSave("mark_posted", feed_url, guid,
               append_entry(state, feed_url, guid, post_uri, t))
  /\ UNCHANGED << disk, tmp, bak >>
  /\ UNCHANGED cache

\* the two readings of datetime.now() that one mark_posted call takes, a few
\* statements apart, are the same tick t
MarkPosted(feed_url, guid, post_uri, t) ==
  /\ pc = "idle"
  /\ diskBefore' = disk
  /\ now' = t
  /\ IF cleanup_raises(append_entry(state, feed_url, guid, post_uri, t), feed_url)
       THEN /\ state' = append_entry(state, feed_url, guid, post_uri, t)
            /\ last' = Call("mark_posted", feed_url, guid, "TypeError", NoRet)
            /\ UNCHANGED << pc, saveDoc >>
       ELSE BeginSave("mark_posted", feed_url, guid,
                      mark_posted(state, feed_url, guid, post_uri, t, t))
  /\ UNCHANGED << disk, tmp, bak >>
  /\ UNCHANGED cache

UpdateLastRun(feed_url, timestamp) ==
  /\ pc = "idle"
  /\ diskBefore' = disk
  /\ now' = timestamp
  /\ BeginSave("update_last_run", feed_url, "x",
               update_last_run(state, feed_url, timestamp))
  /\ UNCHANGED << disk, tmp, bak >>
  /\ UNCHANGED cache

\* cleanup_old_entries called on its own: it does not save
CleanupOldEntries(feed_url, t) ==
  /\ pc = "idle"
  /\ diskBefore' = disk
  /\ now' = t
  /\ IF cleanup_raises(state, feed_url)
       THEN /\ state' = _ensure_feed_exists(state, feed_url)
            /\ last' = Call("cleanup_old_entries", feed_url, "x", "TypeError", NoRet)
       ELSE /\ state' = cleanup_old_entries(state, feed_url, t)
            /\ last' = Call("cleanup_old_entries", feed_url, "x", "ok", NoRet)
  /\ UNCHANGED << disk, tmp, bak, pc, saveDoc >>
  /\ UNCHANGED cache

BoolRet(b) == [kind |-> "bool", t |-> IF b THEN 1 ELSE 0]

IntRet(n) == [kind |-> "int", t |-> n]

IsPosted(feed_url, guid) ==
  /\ pc = "idle"
  /\ diskBefore' = disk
  /\ state' = _ensure_feed_exists(state, feed_url)
  /\ last' = Call("is_posted", feed_url, guid, "ok",
                  BoolRet(is_posted(state, feed_url, guid)))
  /\ UNCHANGED << disk, tmp, bak, pc, now, saveDoc >>
  /\ UNCHANGED cache

GetLastRun(feed_url) ==
  /\ pc = "idle"
  /\ diskBefore' = disk
  /\ state' = _ensure_feed_exists(state, feed_url)
  /\ LET r == get_last_run(state, feed_url)
     IN  last' = Call("get_last_run", feed_url, "x",
                      IF r.kind = "ValueError" THEN "ValueError" ELSE "ok", r)
  /\ UNCHANGED << disk, tmp, bak, pc, now, saveDoc >>
  /\ UNCHANGED cache

GetPostedCount(feed_url) ==
  /\ pc = "idle"
  /\ diskBefore' = disk
  /\ state' = _ensure_feed_exists(state, feed_url)
  /\ last' = Call("get_posted_count", feed_url, "x", "ok",
                  IntRet(get_posted_count(state, feed_url)))
  /\ UNCHANGED << disk, tmp, bak, pc, now, saveDoc >>
  /\ UNCHANGED cache

\* the process is killed, or exits: the instance is gone, the files stay
Kill ==
  /\ pc # "closed"
  /\ pc' = "closed"
  /\ state' = EmptyState
  /\ last' = [last EXCEPT !.op = "kill", !.at = pc]
  /\ UNCHANGED << disk, tmp, bak, now, diskBefore, saveDoc >>
  /\ UNCHANGED cache

\* ------------------------------------------- the store used on its own
Next ==
  /\ UNCHANGED fetchvars
  /\ UNCHANGED subvars
  /\ \/ /\ calls < MaxCalls
        /\ calls' = calls + 1
        /\ UNCHANGED faults
        /\ UNCHANGED runvars
        /\ \/ Open
           \/ \E f \in Feeds, g \in Guids, u \in PostUris, t \in ClockReads(now) :
                 MarkPosted(f, g, u, t)
           \/ \E f \in Feeds, t \in ClockReads(now) : UpdateLastRun(f, t)
           \/ \E f \in Feeds, t \in ClockReads(now) : CleanupOldEntries(f, t)
           \/ \E f \in Feeds, g \in Guids : IsPosted(f, g)
           \/ \E f \in Feeds : GetLastRun(f)
           \/ \E f \in Feeds : GetPostedCount(f)
     \/ (SaveStep \/ SaveStepFails \/ Kill) /\ UNCHANGED << calls, faults >> /\ UNCHANGED runvars

Spec == Init /\ [][Next]_vars

\* ------------------------------ Aggregator.run and Aggregator._process_feed
CurFeed == FeedOrder[src]

CurGuid == entries[CurFeed][idx]

\* a run has ended: sys.exit, the instance is gone
Exit ==
  /\ pc' = "closed"
  /\ state' = EmptyState
  /\ rpc' = "stopped"

\* main(): a new process builds the Aggregator, whose constructor builds
\* the StateManager
RunStart ==
  /\ rpc = "stopped"
  /\ runs < MaxRuns
  /\ runs' = runs + 1
  /\ Open
  /\ rpc' = "init"
  /\ UNCHANGED << src, idx, entries, published, forgotten >>
  /\ fetched' = {}
  /\ stamps' = [f \in Feeds |-> 0]
  /\ attempted' = << >>
  /\ UNCHANGED failed

\* the constructor raised: main() logs and exits
RunStartFailed ==
  /\ rpc = "init"
  /\ pc = "closed"
  /\ rpc' = "stopped"
  /\ UNCHANGED storevars
  /\ UNCHANGED << src, idx, entries, runs, published, forgotten >>
  /\ UNCHANGED logvars

\* run(): coves_client.authenticate() succeeds
RunAuth ==
  /\ rpc = "init"
  /\ pc = "idle"
  /\ rpc' = "fetch"
  /\ src' = 1
  /\ UNCHANGED storevars
  /\ UNCHANGED << idx, entries, runs, published, forgotten >>
  /\ UNCHANGED logvars

\* authenticate() raises: the run ends before any feed is processed
RunAuthFails ==
  /\ rpc = "init"
  /\ pc = "idle"
  /\ Exit
  /\ UNCHANGED << disk, tmp, bak, last, now, diskBefore, saveDoc, cache >>
  /\ UNCHANGED << src, idx, entries, runs, published, forgotten >>
  /\ UNCHANGED logvars

\* _process_feed: rss_fetcher.fetch_feed returns the feed
RunFetch ==
  /\ rpc = "fetch"
  /\ src <= Len(FeedOrder)
  /\ rpc' = "check"
  /\ idx' = 1
  /\ UNCHANGED storevars
  /\ UNCHANGED << src, entries, runs, published, forgotten >>
  /\ fetched' = fetched \cup {CurFeed}
  /\ attempted' = Append(attempted, CurFeed)
  /\ UNCHANGED << failed, stamps >>

\* a variant in which the exception of a feed ends the run
RunFetchFails_Stops ==
  /\ rpc = "fetch"
  /\ src <= Len(FeedOrder)
  /\ Exit
  /\ UNCHANGED << disk, tmp, bak, last, now, diskBefore, saveDoc, cache >>
  /\ UNCHANGED << src, idx, entries, runs, published, forgotten >>
  /\ attempted' = Append(attempted, CurFeed)
  /\ UNCHANGED << failed, fetched, stamps >>

\* fetch_feed raises: _process_feed re-raises, run() logs it and goes on
\* with the next feed
RunFetchFails ==
  /\ rpc = "fetch"
  /\ src <= Len(FeedOrder)
  /\ src' = src + 1
  /\ UNCHANGED storevars
  /\ UNCHANGED << rpc, idx, entries, runs, published, forgotten >>
  /\ attempted' = Append(attempted, CurFeed)
  /\ UNCHANGED << failed, fetched, stamps >>

\* the loop over the feeds is over: the run completes
RunDone ==
  /\ rpc = "fetch"
  /\ src > Len(FeedOrder)
  /\ Exit
  /\ UNCHANGED << disk, tmp, bak, last, now, diskBefore, saveDoc, cache >>
  /\ UNCHANGED << src, idx, entries, runs, published, forgotten >>
  /\ UNCHANGED logvars

\* a variant of the loop that posts every entry without the is_posted test
RunCheck_NoDedup ==
  /\ rpc = "check"
  /\ idx <= Len(entries[CurFeed])
  /\ IsPosted(CurFeed, CurGuid)
  /\ rpc' = "publish"
  /\ idx' = idx
  /\ UNCHANGED << src, entries, runs, published, forgotten >>
  /\ UNCHANGED logvars

\* for entry in feed.entries: if state_manager.is_posted(...): continue
RunCheck ==
  /\ rpc = "check"
  /\ idx <= Len(entries[CurFeed])
  /\ IsPosted(CurFeed, CurGuid)
  /\ IF is_posted(state, CurFeed, CurGuid)
       THEN rpc' = "check" /\ idx' = idx + 1
       ELSE rpc' = "publish" /\ idx' = idx
  /\ UNCHANGED << src, entries, runs, published, forgotten >>
  /\ UNCHANGED logvars

\* coves_client.create_post returns the uri of the new post
RunPublish ==
  /\ rpc = "publish"
  /\ published' = [published EXCEPT ![CurFeed][CurGuid] = Min(@ + 1, 2)]
  /\ rpc' = "mark"
  /\ UNCHANGED storevars
  /\ UNCHANGED << src, idx, entries, runs, forgotten >>
  /\ failed' = failed \ { << CurFeed, CurGuid >> }
  /\ UNCHANGED << fetched, stamps, attempted >>

\* a variant that records the entry although create_post raised
RunPublishFails_Marks ==
  /\ rpc = "publish"
  /\ rpc' = "check"
  /\ idx' = idx + 1
  /\ state' = mark_posted(state, CurFeed, CurGuid, "u", now, now)
  /\ UNCHANGED << disk, tmp, bak, pc, last, now, diskBefore, saveDoc, cache >>
  /\ UNCHANGED << src, entries, runs, published, forgotten >>
  /\ failed' = failed \cup { << CurFeed, CurGuid >> }
  /\ UNCHANGED << fetched, stamps, attempted >>

\* parsing, formatting or create_post raises: the entry is logged and
\* skipped, the state is not updated
RunPublishFails ==
  /\ rpc = "publish"
  /\ rpc' = "check"
  /\ idx' = idx + 1
  /\ UNCHANGED storevars
  /\ UNCHANGED << src, entries, runs, published, forgotten >>
  /\ failed' = failed \cup { << CurFeed, CurGuid >> }
  /\ UNCHANGED << fetched, stamps, attempted >>

\* state_manager.mark_posted(feed, guid, post_uri) after the post succeeded
RunMark ==
  /\ rpc = "mark"
  /\ \E u \in PostUris, t \in RunClockReads(now) : MarkPosted(CurFeed, CurGuid, u, t)
  /\ rpc' = "marking"
  /\ forgotten' = forgotten \cup
       { << CurFeed, h >> : h \in { h \in Guids :
            /\ is_posted(state, CurFeed, h) \/ h = CurGuid
            /\ ~ is_posted(state', CurFeed, h) } }
  /\ UNCHANGED << src, idx, entries, runs, published >>
  /\ UNCHANGED logvars

\* mark_posted has returned, or raised the OSError that the except around
\* create_post logs as a failed post: next entry
RunMarked ==
  /\ rpc = "marking"
  /\ pc = "idle"
  /\ rpc' = "check"
  /\ idx' = idx + 1
  /\ forgotten' = IF last.result = "ok" THEN forgotten
                  ELSE forgotten \cup { << CurFeed, CurGuid >> }
  /\ UNCHANGED storevars
  /\ UNCHANGED << src, entries, runs, published >>
  /\ UNCHANGED logvars

\* a variant that stamps a feed only when it presented entries
RunStamp_IfEntries ==
  /\ rpc = "check"
  /\ idx > Len(entries[CurFeed])
  /\ IF Len(entries[CurFeed]) = 0
       THEN /\ rpc' = "fetch"
            /\ src' = src + 1
            /\ UNCHANGED storevars
            /\ UNCHANGED stamps
       ELSE /\ UpdateLastRun(CurFeed, now)
            /\ rpc' = "stamping"
            /\ src' = src
            /\ stamps' = [stamps EXCEPT ![CurFeed] = Min(@ + 1, 2)]
  /\ UNCHANGED << idx, entries, runs, published, forgotten >>
  /\ UNCHANGED << failed, fetched, attempted >>

\* after the loop: state_manager.update_last_run(feed, datetime.now()); the
\* reading falls in the tick of the last reading of the loop
RunStamp ==
  /\ rpc = "check"
  /\ idx > Len(entries[CurFeed])
  /\ UpdateLastRun(CurFeed, now)
  /\ rpc' = "stamping"
  /\ UNCHANGED << src, idx, entries, runs, published, forgotten >>
  /\ stamps' = [stamps EXCEPT ![CurFeed] = Min(@ + 1, 2)]
  /\ UNCHANGED << failed, fetched, attempted >>

\* update_last_run has returned, or raised the OSError that run() logs:
\* next feed
RunStamped ==
  /\ rpc = "stamping"
  /\ pc = "idle"
  /\ rpc' = "fetch"
  /\ src' = src + 1
  /\ UNCHANGED storevars
  /\ UNCHANGED << idx, entries, runs, published, forgotten >>
  /\ UNCHANGED logvars

\* the aggregator process is killed; an item posted whose mark_posted has
\* not returned is left without a durable record
RunKill ==
  /\ rpc \notin {"stopped", "off"}
  /\ pc # "closed"
  /\ Kill
  /\ rpc' = "stopped"
  /\ forgotten' = IF rpc = "mark" \/
                       (rpc = "marking" /\ (pc # "idle" \/ last.result # "ok"))
                    THEN forgotten \cup { << CurFeed, CurGuid >> }
                    ELSE forgotten
  /\ UNCHANGED << src, idx, entries, runs, published >>
  /\ UNCHANGED logvars

NextRun ==
  /\ UNCHANGED fetchvars
  /\ UNCHANGED subvars
  /\ \/ /\ UNCHANGED << calls, faults >>
        /\ \/ RunStart
           \/ RunStartFailed
           \/ RunAuth
           \/ RunAuthFails
           \/ RunFetch
           \/ RunFetchFails
           \/ RunDone
           \/ RunCheck
           \/ RunPublish
           \/ RunPublishFails
           \/ RunMark
           \/ RunMarked
           \/ RunStamp
           \/ RunStamped
           \/ SaveStep /\ UNCHANGED runvars
     \/ /\ faults < MaxFaults
        /\ faults' = faults + 1
        /\ UNCHANGED calls
        /\ \/ RunKill
           \/ SaveStepFails /\ UNCHANGED runvars

InitRun ==
  /\ InitStore
  /\ disk \in {Absent, json_dump(DocByCode)}
  /\ rpc = "stopped"
  /\ entries \in FeedContents
  /\ FetchOff
  /\ SubOff

SpecRun == InitRun /\ [][NextRun]_vars

\* ------------------------ a burst of insertions into one feed of a new store
\* (tests test_limit_guids_to_100_per_feed, test_keeps_entries_within_max_guids):
\* the keys of KeyOrder are marked one after the other, then the cleanup is
\* called
KeyOrder == << "x", "y", "z" >>

InitBurst ==
  /\ InitStore
  /\ disk = Absent
  /\ rpc = "off"
  /\ entries = [f \in Feeds |-> << >>]
  /\ FetchOff
  /\ SubOff

BurstOpen ==
  /\ calls = 0
  /\ Open

BurstMark ==
  /\ calls \in 1..Len(KeyOrder)
  /\ \E u \in PostUris, t \in ClockReads(now) : MarkPosted("a", KeyOrder[calls], u, t)

BurstCleanup ==
  /\ calls = Len(KeyOrder) + 1
  /\ \E t \in ClockReads(now) : CleanupOldEntries("a", t)

NextBurst ==
  /\ UNCHANGED fetchvars
  /\ UNCHANGED subvars
  /\ \/ /\ calls' = calls + 1
        /\ UNCHANGED faults
        /\ UNCHANGED runvars
        /\ \/ BurstOpen
           \/ BurstMark
           \/ BurstCleanup
     \/ SaveStep /\ UNCHANGED << calls, faults >> /\ UNCHANGED runvars

SpecBurst == InitBurst /\ [][NextBurst]_vars

\* ------------------- the cleanup of a feed loaded from a file, on its own
\* (tests test_cleanup_old_guids, test_handles_malformed_timestamps): the file
\* holds feed "a" with up to max_guids_per_feed + 1 records, each stamped with
\* a timestamp the store wrote or with "not-a-date"
EvictStamps == { isoformat(t) : t \in 0..MaxTime } \cup { NotADate }

EvictLists ==
  UNION { [ 1..n -> EvictStamps ] : n \in 0..(max_guids_per_feed + 1) }

EvictDoc(stamps_) ==
  [feeds |-> [f \in {"a"} |->
     [posted_guids |->
        [ i \in 1..Len(stamps_) |->
            Entry(KeyOrder[((i - 1) % Len(KeyOrder)) + 1], stamps_[i]) ],
      last_successful_run |-> None]]]

InitEvict ==
  /\ disk \in { json_dump(EvictDoc(l)) : l \in EvictLists }
  /\ tmp = Absent
  /\ bak = Absent
  /\ state = EmptyState
  /\ pc = "closed"
  /\ last = Call("none", "a", "x", "ok", NoRet)
  /\ now = 1
  /\ diskBefore = disk
  /\ saveDoc = EmptyState
  /\ cache = {}
  /\ calls = 0
  /\ faults = 0
  /\ src = 1
  /\ idx = 1
  /\ runs = 0
  /\ published = [f \in Feeds |-> [g \in Guids |-> 0]]
  /\ forgotten = {}
  /\ failed = {}
  /\ fetched = {}
  /\ stamps = [f \in Feeds |-> 0]
  /\ attempted = << >>
  /\ rpc = "off"
  /\ entries = [f \in Feeds |-> << >>]
  /\ FetchOff
  /\ SubOff

EvictOpen ==
  /\ calls = 0
  /\ Open

EvictCleanup ==
  /\ calls = 1
  /\ \E t \in ClockReads(now) : CleanupOldEntries("a", t)

NextEvict ==
  /\ UNCHANGED fetchvars
  /\ UNCHANGED subvars
  /\ /\ calls' = calls + 1
     /\ UNCHANGED faults
     /\ UNCHANGED runvars
     /\ \/ EvictOpen
        \/ EvictCleanup

SpecEvict == InitEvict /\ [][NextEvict]_vars

\* --------------------------------------------------- RSSFetcher.fetch_feed
\* the urls fetch_feed is called with: the empty string and a feed url
Urls == { "", "u" }

\* the subclasses of requests.RequestException that requests.get and
\* raise_for_status raise
RequestExceptions == { "ConnectionError", "Timeout", "HTTPError" }

RECURSIVE Pow2(_)
Pow2(n) == IF n = 0 THEN 1 ELSE 2 * Pow2(n - 1)

InitFetch ==
  /\ InitStore
  /\ disk = Absent
  /\ rpc = "off"
  /\ entries = [f \in Feeds |-> << >>]
  /\ SubOff
  /\ url \in Urls
  /\ max_retries \in 0..MaxRetries
  /\ attempt = 0
  /\ last_error = "None"
  /\ fpc = "call"
  /\ fres = "none"
  /\ gets = 0
  /\ slept = << >>
  /\ errors = << >>

\* fetch_feed(url) up to the loop: if not url: raise ValueError;
\* last_error = None
FetchCall ==
  /\ fpc = "call"
  /\ IF url = ""
       THEN fpc' = "done" /\ fres' = "ValueError"
       ELSE fpc' = "loop" /\ fres' = fres
  /\ attempt' = 0
  /\ last_error' = "None"
  /\ UNCHANGED << url, max_retries, gets, slept, errors >>

\* an iteration of for attempt in range(max_retries) whose requests.get and
\* raise_for_status succeed: return feed
FetchGetOk ==
  /\ fpc = "loop"
  /\ attempt < max_retries
  /\ gets' = gets + 1
  /\ fpc' = "done"
  /\ fres' = "feed"
  /\ UNCHANGED << url, max_retries, attempt, last_error, slept, errors >>

\* an iteration that raises requests.RequestException: last_error = e, and
\* the backoff follows unless this was the last attempt
FetchGetFails(e) ==
  /\ fpc = "loop"
  /\ attempt < max_retries
  /\ gets' = gets + 1
  /\ last_error' = e
  /\ errors' = Append(errors, e)
  /\ IF attempt < max_retries - 1
       THEN fpc' = "sleep" /\ attempt' = attempt
       ELSE fpc' = "loop" /\ attempt' = attempt + 1
  /\ UNCHANGED << url, max_retries, fres, slept >>

\* an iteration that raises an exception that is not a RequestException: it
\* leaves fetch_feed at once
FetchGetRaisesOther ==
  /\ fpc = "loop"
  /\ attempt < max_retries
  /\ gets' = gets + 1
  /\ fpc' = "done"
  /\ fres' = "Exception"
  /\ UNCHANGED << url, max_retries, attempt, last_error, slept, errors >>

\* sleep_time = 2 ** attempt; time.sleep(sleep_time); next iteration
FetchSleep ==
  /\ fpc = "sleep"
  /\ slept' = Append(slept, Pow2(attempt))
  /\ attempt' = attempt + 1
  /\ fpc' = "loop"
  /\ UNCHANGED << url, max_retries, last_error, fres, gets, errors >>

\* the loop is over: raise last_error; raising None is a TypeError
FetchExhausted ==
  /\ fpc = "loop"
  /\ attempt >= max_retries
  /\ fpc' = "done"
  /\ fres' = IF last_error = "None" THEN "TypeError" ELSE last_error
  /\ UNCHANGED << url, max_retries, attempt, last_error, gets, slept, errors >>

NextFetch ==
  /\ UNCHANGED storevars
  /\ UNCHANGED << calls, faults >>
  /\ UNCHANGED runvars
  /\ UNCHANGED subvars
  /\ \/ FetchCall
     \/ FetchGetOk
     \/ \E e \in RequestExceptions : FetchGetFails(e)
     \/ FetchGetRaisesOther
     \/ FetchSleep
     \/ FetchExhausted

SpecFetch == InitFetch /\ [][NextFetch]_vars

\* ------------------------- Aggregator._process_subreddit (reddit-highlights)
\* the entry of the feed without a streamable link
NoVideo == "w"

\* link_extractor.extract_video_url(entry) returns a url
extract_video_url(guid) == guid # NoVideo

\* what the subreddit feed presents: feed.entries, identified by entry id
SubContents ==
  { [f \in Feeds |-> IF f = "a" THEN << "x", "w", "y", "z", "x", "y" >> ELSE << >>],
    [f \in Feeds |-> IF f = "a" THEN << "y", "x", "w", "z" >> ELSE << >>] }

InitSub ==
  /\ InitStore
  /\ disk \in {Absent, json_dump(DocByCode)}
  /\ rpc = "stopped"
  /\ entries \in SubContents
  /\ FetchOff
  /\ SubOff

\* main(): the Aggregator constructor builds the StateManager
SubStart ==
  /\ rpc = "stopped"
  /\ runs = 0
  /\ runs' = 1
  /\ Open
  /\ rpc' = "sub_init"
  /\ UNCHANGED << src, idx, entries, published, forgotten >>
  /\ UNCHANGED logvars
  /\ UNCHANGED subvars

\* _process_subreddit: fetch_feed returned; max_posts = ..., new_posts = 0,
\* skipped_posts = 0
SubFetch ==
  /\ rpc = "sub_init"
  /\ pc = "idle"
  /\ rpc' = "scan"
  /\ idx' = 1
  /\ new_posts' = 0
  /\ skipped_posts' = 0
  /\ create_calls' = 0
  /\ UNCHANGED storevars
  /\ UNCHANGED << src, entries, runs, published, forgotten >>
  /\ UNCHANGED logvars

\* fetch_feed raised: _process_subreddit re-raises
SubFetchFails ==
  /\ rpc = "sub_init"
  /\ pc = "idle"
  /\ rpc' = "sub_done"
  /\ UNCHANGED storevars
  /\ UNCHANGED << src, idx, entries, runs, published, forgotten >>
  /\ UNCHANGED logvars
  /\ UNCHANGED subvars

\* the for loop goes on: there is an entry left and
\* new_posts + skipped_posts < max_posts
SubScanning ==
  /\ rpc = "scan"
  /\ idx <= Len(entries[CurFeed])
  /\ new_posts + skipped_posts < max_posts_per_run

\* if not video_url: continue
SubNoVideo ==
  /\ SubScanning
  /\ ~ extract_video_url(CurGuid)
  /\ idx' = idx + 1
  /\ UNCHANGED storevars
  /\ UNCHANGED << rpc, src, entries, runs, published, forgotten >>
  /\ UNCHANGED logvars
  /\ UNCHANGED subvars

\* if state_manager.is_posted(subreddit_name, entry_id): skipped_posts += 1;
\* continue
SubCheck ==
  /\ SubScanning
  /\ extract_video_url(CurGuid)
  /\ IsPosted(CurFeed, CurGuid)
  /\ IF is_posted(state, CurFeed, CurGuid)
       THEN rpc' = "scan" /\ idx' = idx + 1 /\ skipped_posts' = skipped_posts + 1
       ELSE rpc' = "post" /\ idx' = idx /\ skipped_posts' = skipped_posts
  /\ UNCHANGED << src, entries, runs, published, forgotten >>
  /\ UNCHANGED logvars
  /\ UNCHANGED << new_posts, create_calls >>

\* _parse_entry or create_external_embed raises: the outer except logs it,
\* continue
SubEntryFails ==
  /\ rpc = "post"
  /\ rpc' = "scan"
  /\ idx' = idx + 1
  /\ UNCHANGED storevars
  /\ UNCHANGED << src, entries, runs, published, forgotten >>
  /\ UNCHANGED logvars
  /\ UNCHANGED subvars

\* coves_client.create_post returns the uri of the new post
SubPublish ==
  /\ rpc = "post"
  /\ create_calls' = create_calls + 1
  /\ published' = [published EXCEPT ![CurFeed][CurGuid] = Min(@ + 1, 2)]
  /\ rpc' = "record"
  /\ UNCHANGED storevars
  /\ UNCHANGED << src, idx, entries, runs, forgotten >>
  /\ UNCHANGED logvars
  /\ UNCHANGED << new_posts, skipped_posts >>

\* create_post raises: the inner except logs it, continue; no counter moves
SubPublishFails ==
  /\ rpc = "post"
  /\ create_calls' = create_calls + 1
  /\ rpc' = "scan"
  /\ idx' = idx + 1
  /\ UNCHANGED storevars
  /\ UNCHANGED << src, entries, runs, published, forgotten >>
  /\ UNCHANGED logvars
  /\ UNCHANGED << new_posts, skipped_posts >>

\* state_manager.mark_posted(subreddit_name, entry_id, post_uri)
SubMark ==
  /\ rpc = "record"
  /\ \E u \in PostUris, t \in RunClockReads(now) : MarkPosted(CurFeed, CurGuid, u, t)
  /\ rpc' = "recording"
  /\ UNCHANGED << src, idx, entries, runs, published, forgotten >>
  /\ UNCHANGED logvars
  /\ UNCHANGED subvars

\* mark_posted has returned: new_posts += 1; or it raised, and the inner
\* except logs it as a failed post: continue
SubMarked ==
  /\ rpc = "recording"
  /\ pc = "idle"
  /\ rpc' = "scan"
  /\ idx' = idx + 1
  /\ new_posts' = IF last.result = "ok" THEN new_posts + 1 ELSE new_posts
  /\ UNCHANGED storevars
  /\ UNCHANGED << src, entries, runs, published, forgotten >>
  /\ UNCHANGED logvars
  /\ UNCHANGED << skipped_posts, create_calls >>

\* the loop ends, by exhaustion or by the break at
\* new_posts + skipped_posts >= max_posts:
\* state_manager.update_last_run(subreddit_name, datetime.now())
SubStamp ==
  /\ rpc = "scan"
  /\ ~ SubScanning
  /\ UpdateLastRun(CurFeed, now)
  /\ rpc' = "sub_stamping"
  /\ UNCHANGED << src, idx, entries, runs, published, forgotten >>
  /\ UNCHANGED logvars
  /\ UNCHANGED subvars

\* update_last_run has returned or raised: _process_subreddit is over
SubStamped ==
  /\ rpc = "sub_stamping"
  /\ pc = "idle"
  /\ rpc' = "sub_done"
  /\ UNCHANGED storevars
  /\ UNCHANGED << src, idx, entries, runs, published, forgotten >>
  /\ UNCHANGED logvars
  /\ UNCHANGED subvars

NextSub ==
  /\ UNCHANGED fetchvars
  /\ \/ /\ UNCHANGED << calls, faults >>
        /\ \/ SubStart
           \/ SubFetch
           \/ SubFetchFails
           \/ SubNoVideo
           \/ SubCheck
           \/ SubEntryFails
           \/ SubPublish
           \/ SubPublishFails
           \/ SubMark
           \/ SubMarked
           \/ SubStamp
           \/ SubStamped
           \/ SaveStep /\ UNCHANGED runvars /\ UNCHANGED subvars
     \/ /\ faults < MaxFaults
        /\ faults' = faults + 1
        /\ UNCHANGED calls
        /\ SaveStepFails /\ UNCHANGED runvars /\ UNCHANGED subvars

SpecSub == InitSub /\ [][NextSub]_vars

TypeOK ==
  /\ pc \in {"closed", "idle", "save_open", "save_dump", "save_rename"}
  /\ now \in 0..MaxTime
  /\ cache \subseteq {"tmp", "disk"}
  /\ rpc \in {"off", "stopped", "init", "fetch", "check", "publish", "mark",
              "marking", "stamping",
              "sub_init", "scan", "post", "record", "recording", "sub_stamping",
              "sub_done"}
  /\ fpc \in {"off", "call", "loop", "sleep", "done"}

\* ------------------------------------------------------------------ claims
\* what a fresh StateManager constructed on the same path would hold
Reloaded == json_load(disk).doc

PostedGuids(st, feed_url) ==
  IF feed_url \in DOMAIN st.feeds THEN st.feeds[feed_url].posted_guids ELSE << >>

Range(seq) == { seq[i] : i \in 1..Len(seq) }

\* C1: after mark_posted(feed_url, guid, post_uri) has returned without an
\* error, is_posted(feed_url, guid) is true in the same instance and in a
\* fresh instance loaded from the same path.
C1_MarkedIsPosted ==
  (pc = "idle" /\ last.op = "mark_posted" /\ last.result = "ok")
    => /\ is_posted(state, last.feed_url, last.guid)
       /\ json_load(disk).exc = "none"
       /\ is_posted(Reloaded, last.feed_url, last.guid)

\* C2 as stated: over runs and restarts of the aggregator, no (feed, guid)
\* pair is posted successfully more than once.
C2_AtMostOnce ==
  \A f \in Feeds, g \in Guids : published[f][g] <= 1

\* C2 as amended: a (feed, guid) pair is posted a second time only after its
\* record was evicted or its mark_posted did not return normally (an OSError
\* of the save, or the process killed after the post).
C2_AtMostOnceWhileRecorded ==
  \A f \in Feeds, g \in Guids : published[f][g] >= 2 => << f, g >> \in forgotten

\* a second run skips an entry that was posted once and is still recorded
C2_Witness ==
  /\ runs = 2
  /\ last.op = "is_posted"
  /\ last.ret = BoolRet(TRUE)
  /\ published[last.feed_url][last.guid] = 1
  /\ << last.feed_url, last.guid >> \notin forgotten

\* C3: when a step of the save made by mark_posted fails, the call raises
\* the OSError to its caller and the file at state_file is the document that
\* was there before the call, whole and parsable.
C3_FailedSaveKeepsDisk ==
  (last.op = "mark_posted" /\ last.result = "OSError")
    => /\ pc = "idle"
       /\ disk = diskBefore
       /\ disk.kind = "json"
       /\ json_load(disk).exc = "none"

\* the rename failed: the record is in memory and not in the file
C3_Witness ==
  /\ last.op = "mark_posted"
  /\ last.result = "OSError"
  /\ last.at = "save_rename"
  /\ is_posted(state, last.feed_url, last.guid)
  /\ ~ is_posted(Reloaded, last.feed_url, last.guid)

\* C4: at every point of a save, also when the process is killed there, the
\* file at state_file is either the whole document it held before the call
\* or the whole new document, never a partly written one.
C4_DiskOldOrNew ==
  /\ disk.kind # "partial"
  /\ disk = diskBefore \/ disk = json_dump(saveDoc)

\* the process was killed while json.dump was writing the temp file
C4_Witness ==
  /\ last.op = "kill"
  /\ last.at = "save_dump"
  /\ tmp.kind = "partial"
  /\ disk.kind = "json"
  /\ disk = diskBefore
  /\ disk # json_dump(saveDoc)

\* C5: when the file at state_file cannot be parsed, the constructor
\* succeeds, the state is empty and the file state.json.corrupted holds the
\* original bytes.
C5_CorruptionRecovered ==
  (last.op = "open" /\ last.result # "running"
     /\ json_load(diskBefore).exc \in {"JSONDecodeError", "UnicodeDecodeError"})
    => /\ last.result = "ok"
       /\ pc = "idle"
       /\ \A f \in Feeds : get_posted_count(state, f) = 0
       /\ bak = diskBefore

\* C6: after cleanup_old_entries has completed for a feed at the reading now,
\* alone or inside mark_posted, the feed holds at most max_guids_per_feed
\* records and none is older than now - max_age_days.
C6_EvictionBounds ==
  (pc # "closed" /\ last.op \in {"cleanup_old_entries", "mark_posted"}
     /\ last.result # "TypeError")
    => LET posted_guids == state.feeds[last.feed_url].posted_guids
       IN  /\ Len(posted_guids) <= max_guids_per_feed
           /\ \A i \in 1..Len(posted_guids) :
                /\ IsIsoFormat(posted_guids[i].posted_at)
                /\ fromisoformat(posted_guids[i].posted_at)
                     >= now - timedelta(max_age_days)

\* mark_posted on a feed that held max_guids_per_feed records, all inside the
\* age window: the cap removed one
C6_Witness ==
  /\ pc = "idle"
  /\ last.op = "mark_posted"
  /\ last.result = "ok"
  /\ Len(PostedGuids(state, last.feed_url)) = max_guids_per_feed
  /\ diskBefore.kind = "json"
  /\ Len(AgeFilter(PostedGuids(diskBefore.doc, last.feed_url),
                   now - timedelta(max_age_days))) = max_guids_per_feed

\* C7: once more than max_guids_per_feed distinct keys have been marked for
\* one feed, one after the other, the feed holds exactly max_guids_per_feed
\* records and they are the keys marked last.
C7_KeepsMostRecent ==
  (pc = "idle" /\ calls - 1 > max_guids_per_feed
     /\ last.op \in {"mark_posted", "cleanup_old_entries"})
    => LET n == Min(calls - 1, Len(KeyOrder))
           posted_guids == PostedGuids(state, "a")
       IN  /\ Len(posted_guids) = max_guids_per_feed
           /\ { posted_guids[i].guid : i \in 1..Len(posted_guids) }
                = { KeyOrder[i] : i \in (n - max_guids_per_feed + 1)..n }

\* C8: a call that runs the cleanup for a feed at the reading now removes the
\* records with posted_at < now - max_age_days, and the age rule removes no
\* well-formed record with posted_at >= now - max_age_days (so such a record
\* stays whenever the feed is within the cap).
C8_AgeRule ==
  [][ (pc = "idle" /\ calls' = calls + 1
         /\ last'.op \in {"cleanup_old_entries", "mark_posted"}
         /\ last'.result # "TypeError")
      => LET f == last'.feed_url
             pre == PostedGuids(state, f)
             post == PostedGuids(state', f)
             cutoff_date == now' - timedelta(max_age_days)
             room == IF last'.op = "mark_posted"
                       THEN Len(pre) < max_guids_per_feed
                       ELSE Len(pre) <= max_guids_per_feed
         IN  \A i \in 1..Len(pre) :
               ("posted_at" \in DOMAIN pre[i] /\ IsIsoFormat(pre[i].posted_at)) =>
                 /\ fromisoformat(pre[i].posted_at) < cutoff_date
                      => pre[i] \notin Range(post)
                 /\ (fromisoformat(pre[i].posted_at) >= cutoff_date /\ room)
                      => pre[i] \in Range(post) ]_vars

\* C9: a call made for one feed changes neither the records nor the
\* last_successful_run of any other feed, and creates no entry for it.
C9_SourcesIsolated ==
  [][ (pc = "idle" /\ calls' = calls + 1)
      => \A b \in Feeds \ {last'.feed_url} :
           /\ b \in DOMAIN state'.feeds <=> b \in DOMAIN state.feeds
           /\ b \in DOMAIN state.feeds => state'.feeds[b] = state.feeds[b] ]_vars

\* a key marked for feed a while feed b holds records: b does not know it
C9_Witness ==
  /\ pc = "idle"
  /\ last.op = "mark_posted"
  /\ last.result = "ok"
  /\ last.feed_url = "a"
  /\ is_posted(state, "a", last.guid)
  /\ Len(PostedGuids(state, "b")) > 0
  /\ ~ is_posted(state, "b", last.guid)

\* C10: after a mark_posted or update_last_run that returned normally, a
\* fresh instance built on the same path answers is_posted, get_last_run and
\* get_posted_count as the live instance does.
C10_RoundTrip ==
  (pc = "idle" /\ last.op \in {"mark_posted", "update_last_run"}
     /\ last.result = "ok")
    => /\ json_load(disk).exc = "none"
       /\ \A f \in Feeds :
            /\ get_last_run(Reloaded, f) = get_last_run(state, f)
            /\ get_posted_count(Reloaded, f) = get_posted_count(state, f)
            /\ \A g \in Guids : is_posted(Reloaded, f, g) = is_posted(state, f, g)

\* a timestamp with a fraction and a record were written and read back
C10_Witness ==
  /\ pc = "idle"
  /\ last.op = "update_last_run"
  /\ last.result = "ok"
  /\ get_last_run(Reloaded, last.feed_url) = [kind |-> "datetime", t |-> now]
  /\ now % SubTicks # 0
  /\ \E f \in Feeds, g \in Guids : is_posted(Reloaded, f, g)
  /\ state # DocByCode
  /\ state # DocByHand

\* C11: in the loop mark_posted is called for an entry only after its
\* create_post returned; when create_post raises, memory and file are left
\* as they were and the key is not recorded, no key is ever recorded that
\* was not posted, and the next time the entry is met it is posted again.
C11_NoFalsePositives ==
  /\ [] (\A f \in Feeds, g \in Guids :
           (is_posted(state, f, g) \/ is_posted(Reloaded, f, g))
             => (published[f][g] >= 1 \/ is_posted(DocByCode, f, g)))
  /\ [][
        /\ (pc = "idle" /\ last'.op = "mark_posted" /\ last'.result = "running")
            => /\ rpc = "mark"
               /\ last'.feed_url = CurFeed /\ last'.guid = CurGuid
               /\ published[CurFeed][CurGuid] >= 1
               /\ << CurFeed, CurGuid >> \notin failed
        /\ (rpc = "publish" /\ rpc' = "check")
            => /\ state' = state /\ disk' = disk
               /\ ~ is_posted(state', CurFeed, CurGuid)
               /\ (is_posted(Reloaded', CurFeed, CurGuid)
                     => is_posted(Reloaded, CurFeed, CurGuid))
        /\ (rpc = "check" /\ rpc' \in {"check", "publish"} /\ idx <= Len(entries[CurFeed])
              /\ << CurFeed, CurGuid >> \in failed
              /\ ~ is_posted(state, CurFeed, CurGuid))
            => rpc' = "publish" ]_vars

\* the second run is about to post again an entry whose create_post raised
\* in the first run and that is recorded neither in memory nor in the file
C11_Witness ==
  /\ runs = 2
  /\ rpc = "publish"
  /\ << CurFeed, CurGuid >> \in failed
  /\ published[CurFeed][CurGuid] = 0
  /\ ~ is_posted(state, CurFeed, CurGuid)
  /\ ~ is_posted(Reloaded, CurFeed, CurGuid)

\* C12: when the constructor returns for a path that held no file, the file
\* exists and holds the empty document {"feeds": {}}, which is also the
\* state of the instance.
C12_AbsentFileCreated ==
  (last.op = "open" /\ pc = "idle" /\ diskBefore = Absent)
    => /\ last.result = "ok"
       /\ disk = json_dump(EmptyState)
       /\ json_load(disk).exc = "none"
       /\ Reloaded = EmptyState
       /\ state = EmptyState
       /\ tmp = Absent

\* the constructor has returned on a path that held no file
C12_Witness ==
  /\ last.op = "open"
  /\ last.result = "ok"
  /\ pc = "idle"
  /\ diskBefore = Absent
  /\ disk.kind = "json"

\* C13: after update_last_run(feed_url, t) has returned, the feed exists and
\* get_last_run(feed_url) returns t in the same instance and in a fresh
\* instance loaded from the same path; get_last_run of a live instance
\* stops returning None for a feed only through update_last_run on that feed.
C13_LastRunRoundTrip ==
  /\ [] ((pc = "idle" /\ last.op = "update_last_run" /\ last.result = "ok")
          => /\ last.feed_url \in DOMAIN state.feeds
             /\ get_last_run(state, last.feed_url) = [kind |-> "datetime", t |-> now]
             /\ json_load(disk).exc = "none"
             /\ last.feed_url \in DOMAIN Reloaded.feeds
             /\ get_last_run(Reloaded, last.feed_url) = [kind |-> "datetime", t |-> now])
  /\ [][ \A f \in Feeds :
           (pc # "closed" /\ get_last_run(state, f).kind = "none"
              /\ get_last_run(state', f).kind # "none")
             => (last'.op = "update_last_run" /\ last'.feed_url = f) ]_vars

\* a feed absent from the file was stamped with a time that has a sub-second
\* part, and a feed never stamped still answers None
C13_Witness ==
  /\ pc = "idle"
  /\ last.op = "update_last_run"
  /\ last.result = "ok"
  /\ diskBefore.kind = "json"
  /\ last.feed_url \notin DOMAIN diskBefore.doc.feeds
  /\ now % SubTicks # 0
  /\ get_last_run(Reloaded, last.feed_url) = [kind |-> "datetime", t |-> now]
  /\ \E f \in Feeds : get_last_run(state, f).kind = "none"

\* C14: a call that runs the cleanup for a feed never fails because of a
\* record whose posted_at is missing, does not parse or is otherwise
\* malformed: the call completes and only well-formed records are left.
C14_MalformedDropped ==
  (pc # "closed" /\ last.op \in {"cleanup_old_entries", "mark_posted"})
    => /\ last.result \in {"ok", "running", "OSError"}
       /\ \A i \in 1..Len(PostedGuids(state, last.feed_url)) :
            /\ "posted_at" \in DOMAIN PostedGuids(state, last.feed_url)[i]
            /\ IsIsoFormat(PostedGuids(state, last.feed_url)[i].posted_at)

\* the number of records of a feed that carry the key guid
Copies(st, feed_url, guid) ==
  Cardinality({ i \in 1..Len(PostedGuids(st, feed_url)) :
                  PostedGuids(st, feed_url)[i].guid = guid })

\* C15: mark_posted for a key the feed already holds does not fail and
\* is_posted stays true; the redundant record is gone after the next cleanup
\* that runs for the feed, so that it no longer counts in get_posted_count.
C15_DuplicateHarmless ==
  [][ (pc = "idle" /\ calls' = calls + 1
         /\ last'.op \in {"cleanup_old_entries", "mark_posted"}
         /\ ~ cleanup_raises(state, last'.feed_url))
      => LET f == last'.feed_url
         IN  /\ last'.result # "TypeError"
             /\ (last'.op = "mark_posted" /\ is_posted(state, f, last'.guid))
                  => is_posted(state', f, last'.guid)
             /\ \A h \in Guids :
                  Copies(state, f, h) >= 2 => Copies(state', f, h) <= 1 ]_vars

\* C16: in an instance whose constructor returned, whatever document it
\* loaded, is_posted and get_last_run return a value and never raise.
C16_ReadsNeverRaise ==
  (pc # "closed" /\ last.op \in {"is_posted", "get_last_run"})
    => /\ last.result = "ok"
       /\ last.ret.kind \in {"bool", "none", "datetime"}

\* C17: is_posted, get_last_run and get_posted_count leave the in-memory
\* state as it was, also for a feed the state does not hold: a read creates
\* no feed entry and changes no file.
C17_ReadsArePure ==
  [][ (pc = "idle" /\ calls' = calls + 1
         /\ last'.op \in {"is_posted", "get_last_run", "get_posted_count"})
      => /\ state' = state
         /\ DOMAIN state'.feeds = DOMAIN state.feeds
         /\ disk' = disk ]_vars

\* C18: every document written by mark_posted or update_last_run holds, for
\* the feed the call was made for, at most max_guids_per_feed records and
\* none older than now - max_age_days.
C18_EvictedOnEveryWrite ==
  (pc = "idle" /\ last.op \in {"mark_posted", "update_last_run"}
     /\ last.result = "ok")
    => LET posted_guids == PostedGuids(Reloaded, last.feed_url)
       IN  /\ Len(posted_guids) <= max_guids_per_feed
           /\ \A i \in 1..Len(posted_guids) :
                /\ "posted_at" \in DOMAIN posted_guids[i]
                /\ IsIsoFormat(posted_guids[i].posted_at)
                /\ fromisoformat(posted_guids[i].posted_at)
                     >= now - timedelta(max_age_days)

\* C19: after mark_posted, update_last_run or cleanup_old_entries called on
\* its own has returned, the file holds the in-memory state: a fresh instance
\* loaded from the same path answers is_posted and get_posted_count as the
\* live one.
C19_SavedAfterEveryChange ==
  (pc = "idle" /\ last.result = "ok"
     /\ last.op \in {"mark_posted", "update_last_run", "cleanup_old_entries"})
    => /\ json_load(disk).exc = "none"
       /\ \A f \in Feeds :
            /\ get_posted_count(Reloaded, f) = get_posted_count(state, f)
            /\ \A g \in Guids : is_posted(Reloaded, f, g) = is_posted(state, f, g)

\* C20: in a run update_last_run is called for a feed only after fetch_feed
\* returned it and all its entries were handled, and once at most; when the
\* run has moved past a fetched feed, that feed was stamped exactly once and
\* the instance holds the stamp, whether or not the feed presented entries
\* and whether or not any of them was posted.
C20_StampedOncePerPass ==
  /\ [] (\A f \in Feeds : stamps[f] <= 1 /\ (stamps[f] = 1 => f \in fetched))
  /\ [] (rpc \in {"fetch", "check", "publish", "mark", "marking"}
          => \A k \in 1..(src - 1) :
               FeedOrder[k] \in fetched
                 => /\ stamps[FeedOrder[k]] = 1
                    /\ get_last_run(state, FeedOrder[k]).kind = "datetime")
  /\ [][ (stamps' # stamps /\ runs' = runs)
          => /\ rpc = "check"
             /\ idx > Len(entries[CurFeed])
             /\ CurFeed \in fetched
             /\ stamps' = [stamps EXCEPT ![CurFeed] = 1]
             /\ last'.op = "update_last_run" /\ last'.feed_url = CurFeed ]_vars

\* a feed that presented no entry was stamped, and nothing was posted or
\* marked for it
C20_Witness ==
  /\ rpc = "fetch"
  /\ src = 2
  /\ entries["a"] = << >>
  /\ "a" \in fetched
  /\ stamps["a"] = 1
  /\ get_last_run(state, "a").kind = "datetime"
  /\ get_posted_count(state, "a") = 0

\* the fields of a document, and of a feed entry, that the code does not know
Extras(st) == [k \in (DOMAIN st) \ {"feeds"} |-> st[k]]

FeedExtras(st, feed_url) ==
  [k \in (DOMAIN st.feeds[feed_url]) \ {"posted_guids", "last_successful_run"} |->
     st.feeds[feed_url][k]]

\* C21: a document with unknown fields at the top level, in a feed entry or
\* in a record is loaded and every operation works on it; no step of a live
\* instance changes the unknown fields of the document or of a feed, a
\* record that stays in a list stays as it was, and a document on disk has
\* the unknown fields of the instance that wrote or loaded it.
C21_ExtrasPassThrough ==
  /\ [] ((pc # "closed" /\ Extras(state) # Extras(EmptyState))
          => last.result \in {"ok", "running", "OSError"})
  /\ [] ((pc # "closed" /\ disk.kind = "json")
          => /\ Extras(Reloaded) = Extras(state)
             /\ \A f \in (DOMAIN state.feeds) \cap (DOMAIN Reloaded.feeds) :
                  FeedExtras(Reloaded, f) = FeedExtras(state, f))
  /\ [][ (pc # "closed" /\ pc' # "closed")
          => /\ Extras(state') = Extras(state)
             /\ \A f \in DOMAIN state.feeds :
                  /\ f \in DOMAIN state'.feeds
                  /\ FeedExtras(state', f) = FeedExtras(state, f)
                  /\ \A r \in Range(PostedGuids(state', f)) :
                       \/ r \in Range(PostedGuids(state, f))
                       \/ /\ last'.op = "mark_posted"
                          /\ last'.feed_url = f
                          /\ r.guid = last'.guid ]_vars

\* mark_posted on a feed of a document with unknown fields has saved: the
\* file still has the unknown fields at the three levels
C21_Witness ==
  /\ pc = "idle"
  /\ last.op = "mark_posted"
  /\ last.result = "ok"
  /\ last.feed_url = "b"
  /\ disk # diskBefore
  /\ Extras(Reloaded) = [version |-> 2]
  /\ FeedExtras(Reloaded, "b") = [etag |-> 7]
  /\ \E r \in Range(PostedGuids(Reloaded, "a")) : "title" \in DOMAIN r

\* the list of a feed is as cleanup_old_entries leaves it at the reading t
Evicted(st, feed_url, t) ==
  /\ Len(PostedGuids(st, feed_url)) <= max_guids_per_feed
  /\ \A i \in 1..Len(PostedGuids(st, feed_url)) :
       AgeKeeps(PostedGuids(st, feed_url)[i], t - timedelta(max_age_days))

\* C22: mark_posted appends the record stamped with the clock reading, runs
\* the cleanup for that feed only and then saves once: the document handed
\* to the save is the state after the cleanup, the temp file and the file
\* hold nothing else during the call, the file changes at most once per
\* call, and when the call returns the file is that document.
C22_AppendEvictSave ==
  /\ [] ((pc # "closed" /\ last.op = "mark_posted" /\ last.result # "TypeError")
          => /\ saveDoc = state
             /\ Evicted(saveDoc, last.feed_url, now)
             /\ pc \in {"save_dump", "save_rename"} => tmp.doc = saveDoc
             /\ disk = diskBefore \/ disk = json_dump(saveDoc)
             /\ (pc = "idle" /\ last.result = "ok") => disk = json_dump(saveDoc))
  /\ [][
          /\ (pc = "idle" /\ calls' = calls + 1 /\ last'.op = "mark_posted"
               /\ last'.result # "TypeError")
             => /\ pc' = "save_open"
                /\ disk' = disk
                /\ \E u \in PostUris :
                     saveDoc' = cleanup_old_entries(
                        append_entry(state, last'.feed_url, last'.guid, u, now'),
                        last'.feed_url, now')
                /\ \A f \in (DOMAIN state.feeds) \ {last'.feed_url} :
                     saveDoc'.feeds[f] = state.feeds[f]
          /\ (last.op = "mark_posted" /\ disk' # disk)
             => (pc = "save_rename" /\ pc' = "idle" /\ disk = diskBefore) ]_vars

\* mark_posted on a feed that was at the cap has returned: the file holds
\* the list after the cleanup, with the new key
C22_Witness ==
  /\ pc = "idle"
  /\ last.op = "mark_posted"
  /\ last.result = "ok"
  /\ diskBefore.kind = "json"
  /\ Len(PostedGuids(diskBefore.doc, last.feed_url)) >= max_guids_per_feed
  /\ disk = json_dump(state)
  /\ Len(PostedGuids(Reloaded, last.feed_url)) = max_guids_per_feed
  /\ is_posted(Reloaded, last.feed_url, last.guid)

\* C23: every save writes the whole document to the temp file, flushes the
\* temp file to the device and only then renames it onto the file: when the
\* rename is made the temp file holds the whole document and nothing of it
\* is left unflushed.
C23_FlushBeforeRename ==
  [][ (pc = "save_rename" /\ last'.result = "ok")
      => /\ tmp = json_dump(saveDoc)
         /\ disk' = tmp
         /\ tmp' = Absent
         /\ "tmp" \notin cache ]_vars

\* the call in last has gone through _save_state
Saved ==
  \/ last.op \in {"mark_posted", "update_last_run"} /\ last.result # "TypeError"
  \/ last.op = "open" /\ json_load(diskBefore).exc \in {"FileNotFoundError", "JSONDecodeError"}

C25_OwnCleanupKeepsNew ==
  [][ (pc = "idle" /\ last'.op = "mark_posted" /\ last'.result = "running")
      => /\ is_posted(state', last'.feed_url, last'.guid)
         /\ is_posted(saveDoc', last'.feed_url, last'.guid) ]_vars

\* C26: when the save of mark_posted(feed_url, guid, post_uri) raises
\* OSError nothing is rolled back and nothing is retried: the call ends with
\* the record in memory, where is_posted answers true, and with the file as
\* it was before the call; the next save that succeeds, of mark_posted or of
\* update_last_run, writes the whole state in memory and so makes the
\* record durable.
C26_FailedSaveKeepsMemory ==
  /\ [] ((pc = "idle" /\ last.op = "mark_posted" /\ last.result = "OSError")
           => /\ is_posted(state, last.feed_url, last.guid)
              /\ disk = diskBefore)
  /\ [][ (pc = "save_rename" /\ last'.result = "ok")
          => /\ json_load(disk').exc = "none"
             /\ json_load(disk').doc = state
             /\ state' = state ]_vars

\* the two steps of cleanup_old_entries the other way round: sort, keep the
\* first max_guids_per_feed, then filter by age
CapThenAge(posted_guids, cutoff_date) ==
  AgeFilter(Truncate(SortDesc(posted_guids)), cutoff_date)

\* a list of records whose posted_at the store wrote
WellFormed(posted_guids) ==
  \A i \in 1..Len(posted_guids) : IsIsoFormat(posted_guids[i].posted_at)

C28_EveryEnabledFeedOnce ==
  /\ [] (rpc \in {"fetch", "check", "publish", "mark", "marking", "stamping"}
           => attempted = SubSeq(FeedOrder, 1, IF rpc = "fetch" THEN src - 1 ELSE src))
  /\ [] (\A i \in 1..Len(attempted) :
            \E j \in 1..Len(config_feeds) :
               config_feeds[j].url = attempted[i] /\ config_feeds[j].enabled)
  /\ [][ (rpc = "fetch" /\ rpc' = "stopped" /\ last'.op # "kill")
          => attempted = FeedOrder ]_vars

\* a run has completed in which the fetch of the first feed raised and the
\* second feed was fetched and processed
C28_Witness ==
  /\ rpc = "stopped"
  /\ runs >= 1
  /\ last.op # "kill"
  /\ attempted = FeedOrder
  /\ FeedOrder[1] \notin fetched
  /\ FeedOrder[2] \in fetched
  /\ stamps[FeedOrder[2]] = 1

\* C29: fetch_feed calls requests.get at most max_retries times and stops at
\* the first success; the i-th sleep (i from 0) lasts 2^i seconds and there
\* is none after the last attempt; and when every attempt raised a
\* RequestException, fetch_feed raises the last of them, whatever
\* max_retries is.
C29_RetryBackoff ==
  /\ gets <= max_retries
  /\ fres = "feed" => gets = Len(errors) + 1
  /\ \A i \in 1..Len(slept) : slept[i] = Pow2(i - 1)
  /\ fpc = "done" /\ gets > 0 => Len(slept) = gets - 1
  /\ (fpc = "done" /\ url # "" /\ gets = Len(errors))
       => /\ fres \in RequestExceptions
          /\ Len(errors) > 0
          /\ fres = errors[Len(errors)]

\* C30: in the pass over one subreddit create_post is called at most
\* max_posts_per_run times, because the scan stops as soon as the posts made
\* plus the entries skipped as already posted reach max_posts_per_run.
C30_PublishBounded ==
  /\ [] (create_calls <= max_posts_per_run)
  /\ [] (new_posts + skipped_posts <= max_posts_per_run)
  /\ [][ create_calls' # create_calls
          => new_posts + skipped_posts < max_posts_per_run ]_vars
====
